---- MODULE Spec2Model ----
(***************************************************************************)
(* ytextract: the protocol resilience layer.                               *)
(*   - the error classifier (PlayabilityStatus::as_error, browse           *)
(*     Result::into_std),                                                  *)
(*   - the request orchestrator (Api::get, Api::streams),                  *)
(*   - the player cache (Client::player) and Stream::url,                  *)
(*   - the cipher engine (CipherPlan::from_body, CipherPlan::run),         *)
(*   - the continuation pager (Playlist::videos).                          *)
(* One client performs one operation at a time; `op` names the operation   *)
(* in progress and every other component rests in its initial state.       *)
(***************************************************************************)
EXTENDS Naturals, Integers, Sequences, FiniteSets, TLC

(***************************************************************************)
(* Option and Result values.                                               *)
(***************************************************************************)
None == [some |-> FALSE]
Some(v) == [some |-> TRUE, v |-> v]

Panic(m) == [tag |-> "PANIC", msg |-> m]
IsPanic(r) == r.tag = "PANIC"

\* str::contains
Contains(s, p) ==
    \E i \in 1..(Len(s) - Len(p) + 1) : SubSeq(s, i, i + Len(p) - 1) = p

(***************************************************************************)
(* error.rs: the closed set of errors reported by YouTube.                 *)
(***************************************************************************)
Yt(t) == [tag |-> t]
CopyrightClaim(c) == [tag |-> "CopyrightClaim", claiment |-> c]

Claimants == {"Richard DiBacco", "Image Entertainment"}

Youtube ==
    {Yt(t) : t \in {"NotFound", "Private", "CommunityGuidelineViolation",
                    "GeoRestricted", "PurchaseRequired", "Unviewable",
                    "AgeRestricted", "NudityOrSexualContentViolation",
                    "AccountTerminated", "RemovedByUploader",
                    "TermsOfServiceViolation"}}
    \cup {CopyrightClaim(c) : c \in Claimants}

\* #[error("...")]: the Display text of each variant
to_string(yt) ==
    CASE yt.tag = "NotFound" -> "a entity was not found"
      [] yt.tag = "Private" -> "a entity is private"
      [] yt.tag = "CommunityGuidelineViolation" ->
            "a video is not available due to community guideline violations"
      [] yt.tag = "GeoRestricted" -> "a video is not available in your country"
      [] yt.tag = "PurchaseRequired" ->
            "a purchase is required to watch get this stream"
      [] yt.tag = "Unviewable" -> "a playlist could not be viewed"
      [] yt.tag = "AgeRestricted" -> "a video is age-restricted"
      [] yt.tag = "NudityOrSexualContentViolation" ->
            "a video is not available due to nudity or sexual content violations"
      [] yt.tag = "AccountTerminated" ->
            "the channel or the channel associated with a video was terminated"
      [] yt.tag = "RemovedByUploader" -> "a video was removed by the uploader"
      [] yt.tag = "TermsOfServiceViolation" ->
            "a video is not available due to violations of YouTube's Terms of Service"
      [] yt.tag = "CopyrightClaim" ->
            "a video is not available due to a copyright claim by '"
                \o yt.claiment \o "'"

is_streamable(yt) == yt = Yt("AgeRestricted")

(***************************************************************************)
(* player_response.rs: PlayabilityStatus and its classification.           *)
(***************************************************************************)
TxtPrivate == "Private video"
TxtUnavailable == "Video unavailable"
TxtAge == "Sign in to confirm your age"
TxtNudity ==
    "This video has been removed for violating YouTube's policy on nudity or sexual content."
TxtTos == "This video has been removed for violating YouTube's Terms of Service."
TxtPayment == "This video requires payment to watch."
TxtTerminated ==
    "This video is no longer available because the YouTube account associated with this video has been terminated."
TxtNotFound == "This video is unavailable"
TxtRemoved == "This video has been removed by the uploader"
TxtCopyright == "This video is no longer available due to a copyright claim by "
\* a wording the classifier has no arm for
TxtUnknown == "This video is not available on this device."

ScreenReasons ==
    {TxtPrivate, TxtUnavailable, TxtAge, TxtNudity, TxtTos, TxtPayment, TxtUnknown}
SubreasonTexts == {TxtTerminated, TxtNotFound, TxtRemoved, TxtCopyright, TxtUnknown}

SimpleText(t) == [kind |-> "SimpleText", simple_text |-> t]
Runs(rs) == [kind |-> "Runs", runs |-> rs]

Subreasons ==
    {SimpleText(t) : t \in SubreasonTexts}
    \cup {Runs(<<>>)}
    \cup {Runs(<<t>>) : t \in {TxtCopyright, TxtNotFound, TxtUnknown}}
    \cup {Runs(<<TxtCopyright, c>>) : c \in Claimants}

Renderers ==
    {[reason |-> r, subreason |-> None] : r \in ScreenReasons}
    \cup {[reason |-> r, subreason |-> Some(s)] :
            r \in {TxtUnavailable, TxtPrivate}, s \in Subreasons}

ErrorScreens ==
    {[player_error_message_renderer |-> None]}
    \cup {[player_error_message_renderer |-> Some(r)] : r \in Renderers}

PlayabilityStatuses ==
    {[status |-> "ERROR", reason |-> rs, error_screen |-> es] :
        rs \in {None, Some(TxtPayment), Some(TxtUnknown)},
        es \in {None} \cup {Some(e) : e \in ErrorScreens}}

\* PlayerErrorMessageRenderer::subreason
subreason(renderer) ==
    IF ~renderer.subreason.some THEN None
    ELSE LET s == renderer.subreason.v IN
         IF s.kind = "SimpleText" THEN Some(s.simple_text)
         ELSE IF Len(s.runs) = 0 THEN None
         ELSE Some(s.runs[1])

unwrap_or(o, d) == IF o.some THEN o.v ELSE d

\* mutant of as_error_unavailable: the claimant is read from the first run
as_error_unavailable_first(renderer) ==
    LET sub == unwrap_or(subreason(renderer), TxtNotFound) IN
    CASE sub = TxtTerminated -> Yt("AccountTerminated")
      [] sub = TxtNotFound -> Yt("NotFound")
      [] sub = TxtRemoved -> Yt("RemovedByUploader")
      [] sub = TxtCopyright ->
            IF renderer.subreason.some /\ renderer.subreason.v.kind = "Runs"
            THEN IF Len(renderer.subreason.v.runs) >= 2
                 THEN CopyrightClaim(renderer.subreason.v.runs[1])
                 ELSE Panic("index out of bounds")
            ELSE Panic("copyright claim error screen was not Runs")
      [] OTHER -> Panic("Unknown subreason for video unavailable")

\* the "Video unavailable" arm of as_error
as_error_unavailable(renderer) ==
    LET sub == unwrap_or(subreason(renderer), TxtNotFound) IN
    CASE sub = TxtTerminated -> Yt("AccountTerminated")
      [] sub = TxtNotFound -> Yt("NotFound")
      [] sub = TxtRemoved -> Yt("RemovedByUploader")
      [] sub = TxtCopyright ->
            IF renderer.subreason.some /\ renderer.subreason.v.kind = "Runs"
            THEN IF Len(renderer.subreason.v.runs) >= 2
                 THEN CopyrightClaim(renderer.subreason.v.runs[2])
                 ELSE Panic("index out of bounds")
            ELSE Panic("copyright claim error screen was not Runs")
      [] OTHER -> Panic("Unknown subreason for video unavailable")

\* mutant of as_error_screen: the nudity and Terms-of-Service arms exchanged
as_error_screen_swapped(renderer) ==
    LET r == renderer.reason IN
    CASE r = TxtPrivate -> Yt("Private")
      [] r = TxtUnavailable -> as_error_unavailable(renderer)
      [] r = TxtAge -> Yt("AgeRestricted")
      [] r = TxtNudity -> Yt("TermsOfServiceViolation")
      [] r = TxtTos -> Yt("NudityOrSexualContentViolation")
      [] r = TxtPayment -> Yt("PurchaseRequired")
      [] OTHER -> Panic("Unknown error screen text")

\* the error-screen arm of as_error
as_error_screen(renderer) ==
    LET r == renderer.reason IN
    CASE r = TxtPrivate -> Yt("Private")
      [] r = TxtUnavailable -> as_error_unavailable(renderer)
      [] r = TxtAge -> Yt("AgeRestricted")
      [] r = TxtNudity -> Yt("NudityOrSexualContentViolation")
      [] r = TxtTos -> Yt("TermsOfServiceViolation")
      [] r = TxtPayment -> Yt("PurchaseRequired")
      [] OTHER -> Panic("Unknown error screen text")

\* PlayabilityStatus::as_error: a Youtube value, or a panic
as_error(ps) ==
    IF ps.error_screen.some /\ ps.error_screen.v.player_error_message_renderer.some
    THEN as_error_screen(ps.error_screen.v.player_error_message_renderer.v)
    ELSE IF ps.reason.some
    THEN IF ps.reason.v = TxtPayment THEN Yt("PurchaseRequired")
         ELSE Panic("Unknown error reason")
    ELSE Panic("Got no reason and no error screen")

(***************************************************************************)
(* browse/mod.rs: the alert of a browse response and its classification.   *)
(***************************************************************************)
TxtNoPlaylist == "The playlist does not exist."
TxtNoChannel == "This channel does not exist."
TxtUnviewable == "This playlist type is unviewable."
TxtUnknownAlert == "This playlist is not available."

AlertTexts == {TxtNoPlaylist, TxtNoChannel, TxtUnviewable, TxtUnknownAlert}

\* Text::SimpleText, or Text::Runs with its one run
Alerts ==
    {[type |-> ty, text |-> tx] :
        ty \in {"ERROR", "INFO"},
        tx \in {SimpleText(t) : t \in AlertTexts} \cup {Runs(<<t>>) : t \in AlertTexts}}

\* AlertRenderer::text
alert_text(a) ==
    IF a.text.kind = "SimpleText" THEN a.text.simple_text ELSE a.text.runs[1]

BrowseOk(v) == [kind |-> "Ok", v |-> v]
BrowseError(a) == [kind |-> "Error", alerts |-> a]

Ok(v) == [tag |-> "Ok", v |-> v]
ErrYoutube(yt) == [tag |-> "Err", kind |-> "Youtube", yt |-> yt]
ErrRequest(cause) == [tag |-> "Err", kind |-> "Request", cause |-> cause]

\* browse::Result::into_std
into_std(r) ==
    IF r.kind = "Ok" THEN Ok(r.v)
    ELSE IF r.alerts.type # "ERROR" THEN Panic("assertion failed: type == ERROR")
    ELSE LET t == alert_text(r.alerts) IN
         CASE t \in {TxtNoPlaylist, TxtNoChannel} -> ErrYoutube(Yt("NotFound"))
           [] t = TxtUnviewable -> ErrYoutube(Yt("Unviewable"))
           [] OTHER -> Panic("Unknown Error text")

\* player_response: StreamResult::into_std / Result::into_std
stream_into_std(r) ==
    IF r.kind = "Ok" THEN Ok(r.v)
    ELSE LET e == as_error(r.playability_status) IN
         IF IsPanic(e) THEN e ELSE ErrYoutube(e)

(***************************************************************************)
(* player.rs: the ciphers and CipherPlan::run.                             *)
(* A signature is a sequence of characters; run works on its UTF-8 bytes.  *)
(***************************************************************************)
\* a character outside ASCII, two bytes long in UTF-8
EAcute == "U+00E9"

Utf8(c) ==
    CASE c = "A" -> <<65>> [] c = "B" -> <<66>> [] c = "C" -> <<67>>
      [] c = "D" -> <<68>> [] c = "E" -> <<69>> [] c = "F" -> <<70>>
      [] c = "G" -> <<71>> [] c = EAcute -> <<195, 169>>

AsciiChar(b) ==
    CASE b = 65 -> "A" [] b = 66 -> "B" [] b = 67 -> "C" [] b = 68 -> "D"
      [] b = 69 -> "E" [] b = 70 -> "F" [] b = 71 -> "G"

RECURSIVE into_bytes(_)
\* String::into_bytes
into_bytes(sig) ==
    IF sig = <<>> THEN <<>> ELSE Utf8(Head(sig)) \o into_bytes(Tail(sig))

RECURSIVE from_utf8(_)
\* String::from_utf8: the characters, or None for bytes that are no UTF-8
from_utf8(bytes) ==
    IF bytes = <<>> THEN Some(<<>>)
    ELSE IF Head(bytes) \in 65..71
    THEN LET rest == from_utf8(Tail(bytes)) IN
         IF rest.some THEN Some(<<AsciiChar(Head(bytes))>> \o rest.v) ELSE None
    ELSE IF Len(bytes) >= 2 /\ bytes[1] = 195 /\ bytes[2] = 169
    THEN LET rest == from_utf8(SubSeq(bytes, 3, Len(bytes))) IN
         IF rest.some THEN Some(<<EAcute>> \o rest.v) ELSE None
    ELSE None

ReverseCipher == [op |-> "Reverse"]
SpliceCipher(n) == [op |-> "Splice", index |-> n]
SwapCipher(n) == [op |-> "Swap", index |-> n]

\* <[u8]>::reverse
reverse(input) == [i \in 1..Len(input) |-> input[Len(input) + 1 - i]]

\* Vec::drain(..index): panics when index > len
drain(input, index) ==
    IF index > Len(input) THEN Panic("range end index out of range")
    ELSE Ok(SubSeq(input, index + 1, Len(input)))

\* <[u8]>::swap(0, index): panics when index >= len (positions count from 0)
swap(input, index) ==
    IF index >= Len(input) THEN Panic("index out of bounds")
    ELSE Ok([i \in 1..Len(input) |->
                IF i = 1 THEN input[index + 1]
                ELSE IF i = index + 1 THEN input[1]
                ELSE input[i]])

\* Cipher::decipher of the three ciphers
decipher(cipher, input) ==
    CASE cipher.op = "Reverse" -> Ok(reverse(input))
      [] cipher.op = "Splice" -> drain(input, cipher.index)
      [] cipher.op = "Swap" -> swap(input, cipher.index)

RECURSIVE run_ciphers_reversed(_, _)
\* mutant of run_ciphers: the last cipher of the plan is applied first
run_ciphers_reversed(ciphers, input) ==
    IF ciphers = <<>> THEN Ok(input)
    ELSE LET r == decipher(ciphers[Len(ciphers)], input) IN
         IF IsPanic(r) THEN r
         ELSE run_ciphers_reversed(SubSeq(ciphers, 1, Len(ciphers) - 1), r.v)

RECURSIVE run_ciphers(_, _)
\* the loop of CipherPlan::run: each cipher in plan order
run_ciphers(ciphers, input) ==
    IF ciphers = <<>> THEN Ok(input)
    ELSE LET r == decipher(Head(ciphers), input) IN
         IF IsPanic(r) THEN r ELSE run_ciphers(Tail(ciphers), r.v)

\* CipherPlan::run
run(plan, signature) ==
    LET r == run_ciphers(plan, into_bytes(signature)) IN
    IF IsPanic(r) THEN r
    ELSE LET str == from_utf8(r.v) IN
         IF str.some THEN Ok(str.v) ELSE Panic("Chipher result is invalid UTF-8")

(***************************************************************************)
(* player.rs: CipherPlan::from_body.                                       *)
(* The player script is its entry routine (the statements between          *)
(* split("") and join(""), absent when no routine of that shape exists)    *)
(* and its function definitions in text order.                             *)
(***************************************************************************)
\* a statement `x.func(a,arg)`, one of another shape, and the empty
\* statement `split(';')` leaves after a trailing `;`
Call(f, arg) == [kind |-> "call", func |-> f, arg |-> arg, text |-> "AB." \o f \o "(a," \o arg \o ")"]
OtherStmt == [kind |-> "other", text |-> "var c=a.length"]
EmptyStmt == [kind |-> "empty", text |-> ""]

\* `name:function(a,b){body}` definitions of the script
Funcs ==
    << [name |-> "rv", body |-> "a.reverse()"],
       [name |-> "sp", body |-> "a.splice(0,b)"],
       [name |-> "sw", body |-> "var c=a[0];a[0]=a[b%a.length];a[b%a.length]=c"],
       [name |-> "xx", body |-> "a.push(b)"],
       [name |-> "sp", body |-> "a.reverse()"] >>

\* str::parse::<usize>
parse_usize(arg) ==
    CASE arg = "0" -> Some(0) [] arg = "1" -> Some(1) [] arg = "2" -> Some(2)
      [] arg = "3" -> Some(3) [] arg = "4" -> Some(4)
      [] OTHER -> None

CipherErr(e) == [tag |-> "Err", err |-> e]

\* mutant of function_body: the last definition named `name` is taken
function_body_last(funcs, name) ==
    LET hits == {i \in DOMAIN funcs : funcs[i].name = name} IN
    IF hits = {} THEN None
    ELSE Some(funcs[CHOOSE i \in hits : \A j \in hits : i >= j].body)

\* body_exp.captures(body): the body of the first definition named `name`
function_body(funcs, name) ==
    LET hits == {i \in DOMAIN funcs : funcs[i].name = name} IN
    IF hits = {} THEN None
    ELSE Some(funcs[CHOOSE i \in hits : \A j \in hits : i <= j].body)

\* the closure from_body maps over the statements: one statement to its
\* cipher, an Error, or a panic
cipher_of(funcs, stmt) ==
    IF stmt.kind # "call" THEN CipherErr([kind |-> "Statement", statement |-> stmt.text])
    ELSE LET body == function_body(funcs, stmt.func) IN
         IF ~body.some
         THEN CipherErr([kind |-> "CipherFunctionNotFound", name |-> stmt.func])
         ELSE IF Contains(body.v, "reverse") THEN Ok(ReverseCipher)
         ELSE IF Contains(body.v, "splice")
         THEN IF parse_usize(stmt.arg).some
              THEN Ok(SpliceCipher(parse_usize(stmt.arg).v))
              ELSE Panic("SpliceCipher argument was not an integer")
         ELSE IF Contains(body.v, "%")
         THEN IF parse_usize(stmt.arg).some
              THEN Ok(SwapCipher(parse_usize(stmt.arg).v))
              ELSE Panic("SwapCipher argument was not an integer")
         ELSE CipherErr([kind |-> "UnknownCipher", function_name |-> stmt.func,
                         body |-> body.v])

RECURSIVE collect_skipping(_, _, _)
\* mutant of collect: a statement that gives an Error is left out of the plan
collect_skipping(funcs, stmts, acc) ==
    IF stmts = <<>> THEN Ok(acc)
    ELSE IF Head(stmts).kind = "empty" THEN collect_skipping(funcs, Tail(stmts), acc)
    ELSE LET c == cipher_of(funcs, Head(stmts)) IN
         IF c.tag = "Ok" THEN collect_skipping(funcs, Tail(stmts), Append(acc, c.v))
         ELSE IF c.tag = "Err" THEN collect_skipping(funcs, Tail(stmts), acc)
         ELSE c

RECURSIVE collect(_, _, _)
\* .filter(|s| !s.is_empty()).map(..).collect::<Result<_, Error>>():
\* statement by statement, stopping at the first Error (or panic)
collect(funcs, stmts, acc) ==
    IF stmts = <<>> THEN Ok(acc)
    ELSE IF Head(stmts).kind = "empty" THEN collect(funcs, Tail(stmts), acc)
    ELSE LET c == cipher_of(funcs, Head(stmts)) IN
         IF c.tag = "Ok" THEN collect(funcs, Tail(stmts), Append(acc, c.v))
         ELSE c

\* CipherPlan::from_body
from_body(body) ==
    IF ~body.entry.some THEN CipherErr([kind |-> "CipherPlanNotFound"])
    ELSE collect(body.funcs, body.entry.v, <<>>)

(***************************************************************************)
(* State.                                                                  *)
(***************************************************************************)
VARIABLES
    op,         \* the operation the client is performing, "none" before it
    \* Api::streams / Api::get (youtube/innertube.rs)
    spc,        \* position of Api::streams
    gpc,        \* the await Api::get is suspended at: "send", "body", "none"
    retry,      \* Api::get's `retry`
    inflight,   \* the request awaiting its response
    attempts,   \* every request sent during this Api::streams call, in order,
                \* each with the outcome of its attempt
    calls,      \* the contexts Api::get was called with, in order
    returned,   \* what each finished call gave after into_std, in order
    sresult,    \* what Api::streams returned
    \* CipherPlan (player.rs)
    cbody,      \* the player script a plan was extracted from
    cplan,      \* what CipherPlan::from_body gave for it
    cruns,      \* the runs of the plan so far: signature and result
    \* the error classifier
    signal,     \* the failure signal handed to the classifier
    classified, \* what the classifier gave for it
    \* Client::player and Stream::url (client.rs, stream/common.rs)
    cell,       \* Client::player, the OnceCell<Player>
    script,     \* the player script served at ytcfg.player_js_url, once seen
    tpc,        \* per task: position of its Stream::url call
    tfmt,       \* per task: the format whose url it resolves
    tsaw,       \* per task: what `self.player.get()` showed at line 79
    treq,       \* per task: the player-script requests its call sent
    tplayer,    \* per task: the Player that Client::player returned to it
    tres,       \* per task: what Stream::url returned, or its panic
    overlap,    \* whether a call ever started while another was suspended
    \* Playlist::videos (playlist.rs)
    debug_assertions, \* the build profile: whether debug_assert! is compiled in
    ppc,        \* position of the stream
    videos,     \* the items left in the iterator `videos`
    yielded,    \* the items yielded so far
    nserved,    \* the video items served so far, over all pages
    npages,     \* the pages served so far
    creqs,      \* the continuation requests sent, in order
    pbase,      \* the video items served before the page being read
    wellformed, \* whether every page served had its continuation item last
    ppanic,     \* the message the stream panicked with
    \* Id parsing (id.rs, playlist.rs)
    idin,       \* the Id type and the text given to its from_str
    idres,      \* what from_str gave for it
    idback,     \* what from_str gave for the printed form of the Id
    \* stream::get (stream.rs)
    mpc,        \* position of stream::get
    mcalls,     \* the metadata calls it made, in order, each with its outcome
    mres,       \* what stream::get returned, or its panic
    mrecov      \* the status codes is_stream_recoverable holds of

svars == <<spc, gpc, retry, inflight, attempts, calls, returned, sresult>>
cvars == <<cbody, cplan, cruns>>
kvars == <<signal, classified>>
uvars == <<cell, script, tpc, tfmt, tsaw, treq, tplayer, tres, overlap>>
pvars == <<debug_assertions, ppc, videos, yielded, nserved, npages, creqs, pbase,
           wellformed, ppanic>>
ivars == <<idin, idres, idback>>
mvars == <<mpc, mcalls, mres, mrecov>>
vars == <<op, svars, cvars, kvars, uvars, pvars, ivars, mvars>>

\* what the actions of one component leave alone
others_streams == <<cvars, kvars, uvars, pvars, ivars, mvars>>
others_cipher == <<svars, kvars, uvars, pvars, ivars, mvars>>
others_classify == <<svars, cvars, uvars, pvars, ivars, mvars>>
others_url == <<svars, cvars, kvars, pvars, ivars, mvars>>
others_videos == <<svars, cvars, kvars, uvars, ivars, mvars>>
others_id == <<svars, cvars, kvars, uvars, pvars, mvars>>
others_get == <<svars, cvars, kvars, uvars, pvars, ivars>>

(***************************************************************************)
(* youtube/innertube.rs: Api::get and Api::streams.                        *)
(***************************************************************************)
RETRYS == 5

CONTEXT_WEB == "WEB"
CONTEXT_ANDROID == "ANDROID"
CONTEXT_EMBEDDED == "TVHTML5_SIMPLY_EMBEDDED_PLAYER"

VideoIds == {"9bZkp7q19f0", "SkRSXFQerZs"}

\* the JSON body Api::get posts: the context and the flattened request
Request(endpoint, id, context) ==
    [endpoint |-> endpoint, video_id |-> id, context |-> context]

\* StreamingData as served to one context for one video
StreamingData(req) == [video_id |-> req.video_id, served_to |-> req.context]

\* the bodies the player endpoint may answer a request with: streaming data,
\* a playability status, or JSON of neither shape
PlayerBodies(req) ==
    {[kind |-> "Ok", v |-> StreamingData(req)]}
    \cup {[kind |-> "Error", playability_status |-> ps] : ps \in PlayabilityStatuses}
    \cup {[kind |-> "Mismatch"]}

\* line 200: matches!(res, Err(Error::Youtube(ref yt)) if yt.to_string().contains("age"))
needs_embedded(res) ==
    /\ res.tag = "Err"
    /\ res.kind = "Youtube"
    /\ Contains(to_string(res.yt), "age")

\* the attempts so far, the one in flight having ended as `outcome`
Ended(outcome) == [attempts EXCEPT ![Len(attempts)].outcome = outcome]

\* the loop head of Api::get: clone the request and send it
get_send(log, req) ==
    /\ gpc' = "send"
    /\ inflight' = Some(req)
    /\ attempts' = Append(log, [req |-> req, outcome |-> "pending"])

\* Api::get called anew: retry starts at 0
get_call(log, req) ==
    /\ retry' = 0
    /\ calls' = Append(calls, req.context)
    /\ get_send(log, req)

\* Api::streams returns res, or unwinds with a panic
streams_return(outcome, res) ==
    /\ spc' = IF IsPanic(res) THEN "panicked" ELSE "done"
    /\ sresult' = IF IsPanic(res) THEN sresult ELSE Some(res)
    /\ gpc' = "none"
    /\ inflight' = None
    /\ attempts' = Ended(outcome)
    /\ UNCHANGED <<retry, calls>>

\* mutant of streams_resume: the fallback is taken after every age-gated
\* result, also after the embedded context's
streams_resume_cascade(outcome, r) ==
    LET res == IF r.tag = "Ok" THEN stream_into_std(r.v) ELSE r IN
    /\ returned' = IF IsPanic(res) THEN returned ELSE Append(returned, res)
    /\ IF ~IsPanic(res) /\ needs_embedded(res)
       THEN /\ spc' = "embedded"
            /\ get_call(Ended(outcome),
                        Request("player", inflight.v.video_id, CONTEXT_EMBEDDED))
            /\ UNCHANGED sresult
       ELSE streams_return(outcome, res)

\* Api::streams from the point where a call of Api::get returned r
\* (a value of the endpoint's schema, an Error::Request, or a panic)
streams_resume(outcome, r) ==
    LET res == IF r.tag = "Ok" THEN stream_into_std(r.v) ELSE r IN
    /\ returned' = IF IsPanic(res) THEN returned ELSE Append(returned, res)
    /\ IF spc = "primary" /\ ~IsPanic(res) /\ needs_embedded(res)
       THEN /\ spc' = "embedded"
            /\ get_call(Ended(outcome),
                        Request("player", inflight.v.video_id, CONTEXT_EMBEDDED))
            /\ UNCHANGED sresult
       ELSE streams_return(outcome, res)

\* Api::streams: build the request and call Api::get with CONTEXT_ANDROID
streams_start(id) ==
    /\ op = "none"
    /\ op' = "streams"
    /\ spc' = "primary"
    /\ get_call(attempts, Request("player", id, CONTEXT_ANDROID))
    /\ UNCHANGED <<returned, sresult, others_streams>>

\* mutant of get_timeout: the retry count is never compared with RETRYS
get_timeout_unbounded ==
    /\ op = "streams" /\ gpc = "send"
    /\ retry' = retry + 1
    /\ get_send(Ended("timeout"), inflight.v)
    /\ UNCHANGED <<spc, calls, returned, sresult>>
    /\ UNCHANGED <<op, others_streams>>

\* send() failed with a timeout: retry unless `retry == RETRYS`
get_timeout ==
    /\ op = "streams" /\ gpc = "send"
    /\ IF retry = RETRYS
       THEN streams_resume("timeout", ErrRequest("timeout"))
       ELSE /\ retry' = retry + 1
            /\ get_send(Ended("timeout"), inflight.v)
            /\ UNCHANGED <<spc, calls, returned, sresult>>
    /\ UNCHANGED <<op, others_streams>>

\* mutant of get_error: every failed send is retried like a timeout
get_error_retrying(cause) ==
    /\ op = "streams" /\ gpc = "send"
    /\ IF retry = RETRYS
       THEN streams_resume(cause, ErrRequest(cause))
       ELSE /\ retry' = retry + 1
            /\ get_send(Ended(cause), inflight.v)
            /\ UNCHANGED <<spc, calls, returned, sresult>>
    /\ UNCHANGED <<op, others_streams>>

\* send() failed otherwise ("connect"), or error_for_status() found a
\* non-success status ("status")
get_error(cause) ==
    /\ op = "streams" /\ gpc = "send"
    /\ streams_resume(cause, ErrRequest(cause))
    /\ UNCHANGED <<op, others_streams>>

\* a successful status arrived: the body is awaited next
get_response ==
    /\ op = "streams" /\ gpc = "send"
    /\ gpc' = "body"
    /\ UNCHANGED <<op, spc, retry, inflight, attempts, calls, returned, sresult, others_streams>>

\* `res.await?`: reading the body failed ("body"), or the request's timeout
\* ran out while reading it ("body_timeout"); the error is returned as it is
get_body_error(cause) ==
    /\ op = "streams" /\ gpc = "body"
    /\ streams_resume(cause, ErrRequest(cause))
    /\ UNCHANGED <<op, others_streams>>

\* mutant of get_body: a body that carries a playability status is treated
\* like a timeout and the request is sent again
get_body_retrying ==
    /\ op = "streams" /\ gpc = "body"
    /\ \E body \in PlayerBodies(inflight.v) :
        IF body.kind = "Mismatch"
        THEN /\ streams_return("mismatch", Panic("Failed to parse JSON"))
             /\ UNCHANGED returned
        ELSE IF body.kind = "Error" /\ retry < RETRYS
        THEN /\ retry' = retry + 1
             /\ get_send(Ended("domain"), inflight.v)
             /\ UNCHANGED <<spc, calls, returned, sresult>>
        ELSE streams_resume(IF body.kind = "Error" THEN "domain" ELSE "ok", Ok(body))
    /\ UNCHANGED <<op, others_streams>>

\* the caller drops the future of Api::streams while Api::get awaits the
\* response or its body: the request is cancelled with it
streams_abandon ==
    /\ op = "streams" /\ gpc \in {"send", "body"}
    /\ spc' = "dropped"
    /\ gpc' = "none"
    /\ inflight' = None
    /\ attempts' = Ended("dropped")
    /\ UNCHANGED <<retry, calls, returned, sresult>>
    /\ UNCHANGED <<op, others_streams>>

\* the body arrived: parse it as the endpoint's schema; the attempt ends as
\* "domain" when the body carries a playability status, else as "ok"
get_body ==
    /\ op = "streams" /\ gpc = "body"
    /\ \E body \in PlayerBodies(inflight.v) :
        IF body.kind = "Mismatch"
        THEN /\ streams_return("mismatch", Panic("Failed to parse JSON"))
             /\ UNCHANGED returned
        ELSE streams_resume(IF body.kind = "Error" THEN "domain" ELSE "ok", Ok(body))
    /\ UNCHANGED <<op, others_streams>>

(***************************************************************************)
(* player.rs: a plan is extracted from a player script and run on          *)
(* signatures.                                                             *)
(***************************************************************************)
MaxStmts == 3
MaxRuns == 2

BoundedSeq(S, n) == UNION {[1..k -> S] : k \in 0..n}

Stmts ==
    {Call("sw", "2"), Call("sp", "3"), Call("rv", "b"), Call("sp", "b"),
     Call("xx", "1"), Call("zz", "1"), OtherStmt, EmptyStmt}

\* player scripts: without an entry routine, or with one of up to MaxStmts
\* statements
Bodies ==
    {[entry |-> None, funcs |-> Funcs]}
    \cup {[entry |-> Some(ss), funcs |-> Funcs] : ss \in BoundedSeq(Stmts, MaxStmts)}

Signatures ==
    {<<"A", "B", "C", "D", "E", "F", "G">>, <<"A", "B", "C">>, <<"A", "B">>,
     <<"A", EAcute, "B">>, <<>>}

\* Player::from_url after the script arrived: Self { cipher_plan: from_body(body)? }
cipher_extract(body) ==
    /\ op = "none"
    /\ op' = "cipher"
    /\ cbody' = Some(body)
    /\ cplan' = Some(from_body(body))
    /\ UNCHANGED <<cruns, others_cipher>>

\* mutant of cipher_run: running the plan consumes its first cipher
cipher_run_consuming(signature) ==
    /\ op = "cipher"
    /\ cplan.v.tag = "Ok"
    /\ Len(cruns) < MaxRuns
    /\ cruns' = Append(cruns, [signature |-> signature,
                               out |-> run(cplan.v.v, signature)])
    /\ cplan' = Some(Ok(IF cplan.v.v = <<>> THEN <<>> ELSE Tail(cplan.v.v)))
    /\ UNCHANGED <<op, cbody, others_cipher>>

\* CipherPlan::run(&self, signature): the plan is only read
cipher_run(signature) ==
    /\ op = "cipher"
    /\ cplan.v.tag = "Ok"
    /\ Len(cruns) < MaxRuns
    /\ cruns' = Append(cruns, [signature |-> signature,
                               out |-> run(cplan.v.v, signature)])
    /\ UNCHANGED <<op, cbody, cplan, others_cipher>>

(***************************************************************************)
(* The classifier applied to one failure signal.                           *)
(***************************************************************************)
\* StreamResult::Error { playability_status }.into_std()
classify_playability(ps) ==
    /\ op = "none"
    /\ op' = "classify"
    /\ signal' = Some([from |-> "player", playability_status |-> ps])
    /\ classified' = Some(stream_into_std([kind |-> "Error", playability_status |-> ps]))
    /\ UNCHANGED others_classify

\* browse::Result::Error { alerts }.into_std()
classify_alert(alert) ==
    /\ op = "none"
    /\ op' = "classify"
    /\ signal' = Some([from |-> "browse", alert |-> alert])
    /\ classified' = Some(into_std(BrowseError(alert)))
    /\ UNCHANGED others_classify

(***************************************************************************)
(* client.rs, stream/common.rs: Client::player and Stream::url, called by  *)
(* tasks that share one Client. Tasks are numbered in the order in which   *)
(* they call.                                                              *)
(***************************************************************************)
NumTasks == 2
Tasks == 1..NumTasks

RECURSIVE Str(_)
\* the characters of a signature as one string, as format! writes them
Str(sig) == IF sig = <<>> THEN "" ELSE Head(sig) \o Str(Tail(sig))

Url(base, query) == [base |-> base, query |-> query]
DirectUrl == Url("https://r1.googlevideo.com/videoplayback", Some("expire=1&itag=140"))
CipherUrl == Url("https://r2.googlevideo.com/videoplayback", Some("expire=2&itag=251"))

\* the signatureCipher attribute as serde_urlencoded reads it into a map
SignatureCipher(s, url) == [s |-> s, sp |-> "sig", url |-> url]

\* CommonFormat: url and signature_cipher
Format(url, signature_cipher) == [url |-> url, signature_cipher |-> signature_cipher]

Formats ==
    {Format(Some(DirectUrl), None),
     Format(Some(DirectUrl), Some(SignatureCipher(Some(<<"A", "B">>), CipherUrl))),
     Format(None, None),
     Format(None, Some(SignatureCipher(None, CipherUrl))),
     Format(None, Some(SignatureCipher(Some(<<"A", "B">>), CipherUrl))),
     Format(None, Some(SignatureCipher(Some(<<"A", "B", "C", "D", "E", "F", "G">>), CipherUrl))),
     Format(None, Some(SignatureCipher(Some(<<"A", "B", "C", "D", "E", "F", "G">>),
                                       Url("https://r2.googlevideo.com/videoplayback", None))))}

\* the scripts ytcfg.player_js_url may name
PlayerAssets ==
    {[entry |-> Some(<<Call("sw", "2"), Call("sp", "3"), Call("rv", "b"), EmptyStmt>>),
      funcs |-> Funcs],
     [entry |-> Some(<<Call("rv", "b")>>), funcs |-> Funcs],
     [entry |-> Some(<<Call("sw", "2"), Call("xx", "1")>>), funcs |-> Funcs],
     [entry |-> None, funcs |-> Funcs]}

Player(plan) == [cipher_plan |-> plan]

\* the panic of Client::player at line 83
PlayerPanic(kind) ==
    Panic("A Error occurred while parsing a Player. This is unrecoverable and should be reported. Error: " \o kind)
\* `self.player.set(player).unwrap()` on a cell that is set already
SetPanic == Panic("called Result::unwrap() on an Err value")

\* mutant of cell_is_none: the cell is taken for empty whatever it holds
cell_is_none_always == TRUE

\* line 79: self.player.get().is_none()
cell_is_none == ~cell.some

\* mutant of url_resolved: the signature argument replaces the query
url_resolved_replacing(fmt, player) ==
    LET root == fmt.signature_cipher.v IN
    IF ~root.s.some THEN Panic("key not found: s")
    ELSE LET signature == run(player.cipher_plan, root.s.v) IN
         IF IsPanic(signature) THEN signature
         ELSE IF ~root.url.query.some
         THEN Panic("URL did not have a query while trying to add the signature")
         ELSE Ok(Url(root.url.base, Some(root.sp \o "=" \o Str(signature.v))))

\* Stream::url from the point where Client::player returned `player`
url_resolved(fmt, player) ==
    LET root == fmt.signature_cipher.v IN
    IF ~root.s.some THEN Panic("key not found: s")
    ELSE LET signature == run(player.cipher_plan, root.s.v) IN
         IF IsPanic(signature) THEN signature
         ELSE IF ~root.url.query.some
         THEN Panic("URL did not have a query while trying to add the signature")
         ELSE Ok(Url(root.url.base,
                     Some(root.url.query.v \o "&" \o root.sp \o "=" \o Str(signature.v))))

\* Stream::url ends for task t: it returns, or unwinds with a panic
url_return(t, res) ==
    /\ tpc' = [tpc EXCEPT ![t] = IF IsPanic(res) THEN "panicked" ELSE "done"]
    /\ tres' = [tres EXCEPT ![t] = Some(res)]

\* mutant of player_await: the cell is filled with CipherPlan::default()
\* before the request is awaited
player_await_marking(t) ==
    /\ tpc' = [tpc EXCEPT ![t] = "fetch"]
    /\ treq' = [treq EXCEPT ![t] = @ + 1]
    /\ cell' = Some(Player(<<>>))
    /\ UNCHANGED <<script, tplayer, tres>>

\* Client::player found the cell empty: Player::from_url sends the request
\* for the script and the task is suspended at its await
player_await(t) ==
    /\ tpc' = [tpc EXCEPT ![t] = "fetch"]
    /\ treq' = [treq EXCEPT ![t] = @ + 1]
    /\ UNCHANGED <<cell, script, tplayer, tres>>

\* Stream::url called by task t: up to the return, or to the first await of
\* Client::player (the request for the player script)
url_call(t, fmt) ==
    /\ op \in {"none", "url"}
    /\ op' = "url"
    /\ tpc[t] = "idle"
    /\ t > 1 => tpc[t - 1] # "idle"
    /\ tfmt' = [tfmt EXCEPT ![t] = Some(fmt)]
    /\ IF fmt.url.some
       THEN /\ url_return(t, Ok(fmt.url.v))
            /\ UNCHANGED <<cell, script, tsaw, treq, tplayer, overlap>>
       ELSE IF ~fmt.signature_cipher.some
       THEN /\ url_return(t, Panic("Stream did not have a URL or signatureCipher"))
            /\ UNCHANGED <<cell, script, tsaw, treq, tplayer, overlap>>
       ELSE /\ tsaw' = [tsaw EXCEPT ![t] = IF cell.some THEN "filled" ELSE "empty"]
            /\ overlap' = (overlap \/ \E u \in Tasks : tpc[u] = "fetch")
            /\ IF cell_is_none
               THEN player_await(t)
               ELSE /\ tplayer' = [tplayer EXCEPT ![t] = cell]
                    /\ url_return(t, url_resolved(fmt, cell.v))
                    /\ UNCHANGED <<cell, script, treq>>
    /\ UNCHANGED others_url

\* mutant of player_fetch_failed: a failed request for the script is sent
\* again, as Api::get does after a timeout, up to RETRYS times
player_fetch_failed_retrying(t) ==
    /\ op = "url"
    /\ tpc[t] = "fetch"
    /\ IF treq[t] > RETRYS
       THEN /\ url_return(t, PlayerPanic("PlayerNotFound"))
            /\ UNCHANGED treq
       ELSE /\ treq' = [treq EXCEPT ![t] = @ + 1]
            /\ UNCHANGED <<tpc, tres>>
    /\ UNCHANGED <<cell, script, tfmt, tsaw, tplayer, overlap>>
    /\ UNCHANGED <<op, others_url>>

\* Player::from_url failed to get the script (send, status or text):
\* Error::PlayerNotFound, on which Client::player panics
player_fetch_failed(t) ==
    /\ op = "url"
    /\ tpc[t] = "fetch"
    /\ url_return(t, PlayerPanic("PlayerNotFound"))
    /\ UNCHANGED <<cell, script, tfmt, tsaw, treq, tplayer, overlap>>
    /\ UNCHANGED <<op, others_url>>

\* the caller drops the future of Stream::url while Player::from_url awaits:
\* the locals of the call are freed, nothing else runs
url_abandon(t) ==
    /\ op = "url"
    /\ tpc[t] = "fetch"
    /\ tpc' = [tpc EXCEPT ![t] = "dropped"]
    /\ UNCHANGED <<cell, script, tfmt, tsaw, treq, tplayer, tres, overlap>>
    /\ UNCHANGED <<op, others_url>>

\* Player::from_url got the script: from_body, then set the cell, then the
\* rest of Stream::url
player_fetched(t, body) ==
    /\ op = "url"
    /\ tpc[t] = "fetch"
    /\ script.some => body = script.v
    /\ script' = Some(body)
    /\ LET plan == from_body(body) IN
       IF IsPanic(plan)
       THEN /\ url_return(t, plan)
            /\ UNCHANGED <<cell, tplayer>>
       ELSE IF plan.tag = "Err"
       THEN /\ url_return(t, PlayerPanic(plan.err.kind))
            /\ UNCHANGED <<cell, tplayer>>
       ELSE IF cell.some
       THEN /\ url_return(t, SetPanic)
            /\ UNCHANGED <<cell, tplayer>>
       ELSE /\ cell' = Some(Player(plan.v))
            /\ tplayer' = [tplayer EXCEPT ![t] = Some(Player(plan.v))]
            /\ url_return(t, url_resolved(tfmt[t].v, Player(plan.v)))
    /\ UNCHANGED <<tfmt, tsaw, treq, overlap>>
    /\ UNCHANGED <<op, others_url>>

(***************************************************************************)
(* playlist.rs: Playlist::videos, the stream over the pages of a playlist. *)
(* The n-th video item the server hands out has video id n.                *)
(***************************************************************************)
MaxPages == 3

\* one letter per item of a page: V a playable video, D/P/U an unavailable
\* one titled deleted/private/otherwise, C a continuation item
PageShapes ==
    {<<>>, <<"V">>, <<"V", "V">>, <<"V", "D", "C">>, <<"P", "C">>, <<"U", "C">>,
     <<"C">>, <<"V", "C", "V">>, <<"C", "V", "C">>}

TitleOf(letter) ==
    CASE letter = "D" -> "[Deleted video]"
      [] letter = "P" -> "[Private video]"
      [] letter = "U" -> "[Unavailable video]"
      [] OTHER -> "A video"

\* browse::playlist::PlaylistItem, either variant
PlaylistVideoRenderer(variant, video_id, title) ==
    [kind |-> "PlaylistVideoRenderer", variant |-> variant, video_id |-> video_id, title |-> title]
ContinuationItemRenderer(token) == [kind |-> "ContinuationItemRenderer", token |-> token]

\* the item list of the page of this shape, served as page number `page`
\* after `base` video items
PageItems(shape, base, page) ==
    [j \in 1..Len(shape) |->
        IF shape[j] = "C" THEN ContinuationItemRenderer(<<page, j>>)
        ELSE PlaylistVideoRenderer(IF shape[j] = "V" THEN "Ok" ELSE "Err",
                                   base + Cardinality({i \in 1..j : shape[i] # "C"}),
                                   TitleOf(shape[j]))]
VideoCount(shape) == Cardinality({i \in 1..Len(shape) : shape[i] # "C"})
\* a continuation item, if any, is the last item
WellFormed(shape) == \A i \in 1..Len(shape) : shape[i] = "C" => i = Len(shape)
\* the shapes the server may give to its next page: the last one it is
\* willing to serve has no continuation item
ServablePages ==
    {shape \in PageShapes : npages + 1 = MaxPages => \A i \in 1..Len(shape) : shape[i] # "C"}

\* UnavailabilityReason::from_title
from_title(title) ==
    CASE title = "[Deleted video]" -> Ok("Deleted")
      [] title = "[Private video]" -> Ok("Private")
      [] OTHER -> Panic("not implemented: Unknown error title: '" \o title \o "'")

\* playlist::video::Video::new
Video_new(video) ==
    IF video.variant = "Ok" THEN Ok([video_id |-> video.video_id])
    ELSE LET reason == from_title(video.title) IN
         IF IsPanic(reason) THEN reason
         ELSE [tag |-> "Err", err |-> [id |-> video.video_id, reason |-> reason.v]]

\* mutant of into_videos: the first item of the page is lost
into_videos_skipping(root) ==
    IF root.continuation_items = <<>> THEN <<>> ELSE Tail(root.continuation_items)

\* browse::continuation::Root::into_videos
into_videos(root) == root.continuation_items

\* mutant of browse_continuation: the token is cut short before it is sent
browse_continuation_truncated(token) ==
    [endpoint |-> "browse", continuation |-> <<token[1]>>, context |-> CONTEXT_WEB]

\* Api::browse(Browse::Continuation(token)): the request Api::get is called
\* with
browse_continuation(token) ==
    [endpoint |-> "browse", continuation |-> token, context |-> CONTEXT_WEB]

\* Api::continuation(token): the continuation request for a token
continuation(token) == browse_continuation(token)

\* the stream unwinds with a panic
videos_panic(msg) ==
    /\ ppc' = "panicked"
    /\ ppanic' = Some(Panic(msg))

\* first poll: browse::playlist::Root::videos on the response the Playlist
\* was made from; `first` is the shape of its item list, None without contents
videos_start(first) ==
    /\ op = "none"
    /\ op' = "videos"
    /\ ppc = "idle"
    /\ IF ~first.some
       THEN /\ videos_panic("No content was found")
            /\ UNCHANGED <<videos, nserved, npages, pbase, wellformed>>
       ELSE /\ videos' = PageItems(first.v, 0, 1)
            /\ nserved' = VideoCount(first.v)
            /\ npages' = 1
            /\ pbase' = 0
            /\ wellformed' = WellFormed(first.v)
            /\ ppc' = "loop"
            /\ UNCHANGED ppanic
    /\ UNCHANGED <<debug_assertions, yielded, creqs>>
    /\ UNCHANGED others_videos

\* videos.next() is None: the stream ends
videos_end ==
    /\ op = "videos"
    /\ ppc = "loop"
    /\ videos = <<>>
    /\ ppc' = "done"
    /\ UNCHANGED <<debug_assertions, videos, yielded, nserved, npages, pbase, creqs, wellformed, ppanic>>
    /\ UNCHANGED <<op, others_videos>>

\* videos.next() is a PlaylistVideoRenderer: yield Video::new(..)
videos_yield ==
    /\ op = "videos"
    /\ ppc = "loop"
    /\ videos # <<>>
    /\ Head(videos).kind = "PlaylistVideoRenderer"
    /\ videos' = Tail(videos)
    /\ LET item == Video_new(Head(videos)) IN
       IF IsPanic(item)
       THEN /\ videos_panic(item.msg)
            /\ UNCHANGED yielded
       ELSE /\ yielded' = Append(yielded, item)
            /\ UNCHANGED <<ppc, ppanic>>
    /\ UNCHANGED <<debug_assertions, nserved, npages, pbase, creqs, wellformed>>
    /\ UNCHANGED <<op, others_videos>>

\* videos.next() is a ContinuationItemRenderer: the debug assertion, then
\* the continuation request is sent
videos_continuation ==
    /\ op = "videos"
    /\ ppc = "loop"
    /\ videos # <<>>
    /\ Head(videos).kind = "ContinuationItemRenderer"
    /\ IF debug_assertions /\ Tail(videos) # <<>>
       THEN /\ videos_panic("Found a continuation in the middle of videos!")
            /\ videos' = Tail(Tail(videos))
            /\ UNCHANGED creqs
       ELSE /\ creqs' = Append(creqs, continuation(Head(videos).token))
            /\ videos' = Tail(videos)
            /\ ppc' = "await"
            /\ UNCHANGED ppanic
    /\ UNCHANGED <<debug_assertions, yielded, nserved, npages, pbase, wellformed>>
    /\ UNCHANGED <<op, others_videos>>

\* the continuation request failed: expect("Continuation request failed")
videos_continuation_failed ==
    /\ op = "videos"
    /\ ppc = "await"
    /\ videos_panic("Continuation request failed")
    /\ UNCHANGED <<debug_assertions, videos, yielded, nserved, npages, pbase, creqs, wellformed>>
    /\ UNCHANGED <<op, others_videos>>

\* the continuation request brought the next page
videos_continued(shape) ==
    /\ op = "videos"
    /\ ppc = "await"
    /\ shape \in ServablePages
    /\ videos' = into_videos([continuation_items |-> PageItems(shape, nserved, npages + 1)])
    /\ nserved' = nserved + VideoCount(shape)
    /\ npages' = npages + 1
    /\ pbase' = nserved
    /\ wellformed' = (wellformed /\ WellFormed(shape))
    /\ ppc' = "loop"
    /\ UNCHANGED <<debug_assertions, yielded, creqs, ppanic>>
    /\ UNCHANGED <<op, others_videos>>

(***************************************************************************)
(* id.rs: the Id type define_id! generates for a length $len and a list of *)
(* URL prefixes, and its FromStr.                                          *)
(***************************************************************************)
MaxIdLen == 2
MaxIdChars == 3

\* the lengths the macro is instantiated with
IdLens == 1..MaxIdLen

Digits == {"0", "1", "2", "3", "4", "5", "6", "7", "8", "9"}
LowerCase ==
    {"a", "b", "c", "d", "e", "f", "g", "h", "i", "j", "k", "l", "m",
     "n", "o", "p", "q", "r", "s", "t", "u", "v", "w", "x", "y", "z"}
UpperCase ==
    {"A", "B", "C", "D", "E", "F", "G", "H", "I", "J", "K", "L", "M",
     "N", "O", "P", "Q", "R", "S", "T", "U", "V", "W", "X", "Y", "Z"}

\* id::validate_char
validate_char(c) == c \in Digits \cup LowerCase \cup UpperCase \cup {"_", "-"}

\* str::chars, and str::as_bytes of a text of ASCII characters
chars(s) == [i \in 1..Len(s) |-> SubSeq(s, i, i)]

\* str::strip_prefix
strip_prefix(s, prefix) ==
    IF Len(s) >= Len(prefix) /\ SubSeq(s, 1, Len(prefix)) = prefix
    THEN Some(SubSeq(s, Len(prefix) + 1, Len(s)))
    ELSE None

RECURSIVE find_map_strip(_, _)
\* PREFIXES.iter().find_map(|prefix| value.strip_prefix(prefix))
find_map_strip(prefixes, value) ==
    IF prefixes = <<>> THEN None
    ELSE LET r == strip_prefix(value, Head(prefixes)) IN
         IF r.some THEN r ELSE find_map_strip(Tail(prefixes), value)

\* the prefixes channel::Id is defined with
CHANNEL_PREFIXES == <<"https://www.youtube.com/channel/">>

\* error::Id
InvalidId(text) == [tag |-> "Err", err |-> [kind |-> "InvalidId", text |-> text]]
InvalidLength(len) == [tag |-> "Err", err |-> [kind |-> "InvalidLength", len |-> len]]

\* Id([u8; $len])
Id(bytes) == [bytes |-> bytes]

\* Display for Id: from_utf8 of the bytes
id_to_string(id) == Str(id.bytes)

\* mutant of from_str: the length is checked before the characters
from_str_length_first(len, prefixes, text) ==
    LET value == unwrap_or(find_map_strip(prefixes, text), text) IN
    IF Len(chars(value)) # len THEN InvalidLength(Len(value))
    ELSE IF ~(\A i \in DOMAIN chars(value) : validate_char(chars(value)[i]))
    THEN InvalidId(value)
    ELSE Ok(Id(chars(value)))

\* FromStr for Id: strip the first prefix that matches, check the
\* characters, then convert the bytes into [u8; $len]
from_str(len, prefixes, text) ==
    LET value == unwrap_or(find_map_strip(prefixes, text), text) IN
    IF ~(\A i \in DOMAIN chars(value) : validate_char(chars(value)[i]))
    THEN InvalidId(value)
    ELSE IF Len(chars(value)) # len THEN InvalidLength(Len(value))
    ELSE Ok(Id(chars(value)))

RECURSIVE Texts(_, _)
\* the texts of at most n characters of an alphabet
Texts(alphabet, n) ==
    IF n = 0 THEN {""}
    ELSE LET shorter == Texts(alphabet, n - 1) IN
         shorter \cup {s \o c : s \in shorter, c \in alphabet}

\* id texts: valid characters of each class, and one that is not valid
IdAlphabet == {"a", "Z", "7", "_", "-", "/"}

\* the texts given to from_str, as the prefix that leads them, if one does,
\* and the text that remains when it is removed (which may itself start
\* with the prefix)
IdInputs(prefix) ==
    {[lead |-> lead, rest |-> rest] :
        lead \in {"", prefix}, rest \in Texts(IdAlphabet, MaxIdChars)}
    \cup {[lead |-> prefix, rest |-> prefix \o t] : t \in Texts(IdAlphabet, 1)}

\* "…".parse::<channel::Id>() for an Id type of length len
id_parse(len, input) ==
    /\ op = "none"
    /\ op' = "id"
    /\ idin' = Some([type |-> "define_id", len |-> len, lead |-> input.lead,
                     rest |-> input.rest])
    /\ idres' = Some(from_str(len, CHANNEL_PREFIXES, input.lead \o input.rest))
    /\ UNCHANGED <<idback, others_id>>

\* id.to_string().parse::<Id>() for the Id that was parsed
id_reparse ==
    /\ op = "id"
    /\ idin.v.type = "define_id"
    /\ idres.v.tag = "Ok"
    /\ idback = None
    /\ idback' = Some(from_str(idin.v.len, CHANNEL_PREFIXES, id_to_string(idres.v.v)))
    /\ UNCHANGED <<op, idin, idres, others_id>>

(***************************************************************************)
(* playlist.rs: playlist::Id and its FromStr.                              *)
(***************************************************************************)
PLAYLIST_PREFIXES == <<"https://www.youtube.com/playlist?list=">>
ID_PREFIXES == <<"PL", "RD", "UL", "UU", "PU", "OL", "LL", "FL", "WL">>

\* str::starts_with
starts_with(s, prefix) == strip_prefix(s, prefix).some

\* playlist::Id(String)
PlaylistId(text) == [text |-> text]

\* playlist::IdError::InvalidId
IdError_InvalidId(text) == [tag |-> "Err", err |-> [kind |-> "InvalidId", text |-> text]]

\* FromStr for playlist::Id: the checks are made on the text without its
\* URL prefix, the Id is made of the text as it was given
playlist_from_str(s) ==
    LET id == unwrap_or(find_map_strip(PLAYLIST_PREFIXES, s), s) IN
    IF /\ \A i \in DOMAIN chars(id) : validate_char(chars(id)[i])
       /\ \E i \in DOMAIN ID_PREFIXES : starts_with(id, ID_PREFIXES[i])
    THEN Ok(PlaylistId(s))
    ELSE IdError_InvalidId(s)

\* playlist id texts: a list kind that is known or one that is not, then
\* at most one more character, given bare or as a playlist URL
PlaylistInputs ==
    {[lead |-> lead, rest |-> kind \o t] :
        lead \in {"", PLAYLIST_PREFIXES[1]},
        kind \in {"PL", "UU", "WL", "XX"},
        t \in Texts(IdAlphabet, 1)}

\* "…".parse::<playlist::Id>()
playlist_parse(input) ==
    /\ op = "none"
    /\ op' = "id"
    /\ idin' = Some([type |-> "playlist", len |-> 0, lead |-> input.lead,
                     rest |-> input.rest])
    /\ idres' = Some(playlist_from_str(input.lead \o input.rest))
    /\ UNCHANGED <<idback, others_id>>

(***************************************************************************)
(* stream.rs: stream::get, which asks for the metadata of a video until it *)
(* has streaming data.  The two calls it makes are taken by what they      *)
(* return; is_stream_recoverable is any one predicate of the status code.  *)
(***************************************************************************)
\* PlayabilityErrorCode
PlayabilityErrorCodes == {"OK", "UNPLAYABLE", "LOGIN_REQUIRED"}

\* the streaming data of a response, and the data a caller supplies
ResponseData(code) == [adaptive_formats |-> <<"format of " \o code>>]
SuppliedData == [adaptive_formats |-> <<"format supplied">>]

\* PlayerResponse: playability_status { status, reason }, streaming_data
PlayerResponses ==
    UNION {{[playability_status |-> [status |-> code, reason |-> reason],
             streaming_data |-> sd] :
               reason \in {None, Some("reason of " \o code)},
               sd \in {None, Some(ResponseData(code))}} :
           code \in PlayabilityErrorCodes}

\* what a call of Api::player or Api::get_video_info ends in: a response,
\* an error, or a panic
MetadataResults ==
    {Ok(response) : response \in PlayerResponses}
    \cup {ErrRequest("timeout"), ErrYoutube(Yt("NotFound")), Panic("Failed to parse JSON")}

\* PlayabilityErrorCode::is_stream_recoverable
is_stream_recoverable(status) == status \in mrecov

\* stream::Error::Unplayable inside crate::Error::Stream
Unplayable(code, reason) ==
    [tag |-> "Err", kind |-> "Stream", err |-> [kind |-> "Unplayable", code |-> code, reason |-> reason]]

\* a call of the api begins
MetadataCall(api, id) == [api |-> api, id |-> id, ret |-> None]

\* the calls so far, the pending one having returned r
Returned(r) == [mcalls EXCEPT ![Len(mcalls)].ret = Some(r)]

\* stream::get ends: it returns res, or unwinds with a panic
get_return(res) ==
    /\ mpc' = IF IsPanic(res) THEN "panicked" ELSE "done"
    /\ mres' = Some(res)

\* lines 73-83: response.streaming_data.expect(..), then Ok(the streams)
get_streams(response) ==
    get_return(IF response.streaming_data.some
               THEN Ok(response.streaming_data.v.adaptive_formats)
               ELSE Panic("Recoverable error did not contain streaming data"))

\* stream::get called: with streaming data it returns the streams of it,
\* without it calls client.api.player(id)
get_start(id, streaming_data, recoverable) ==
    /\ op = "none"
    /\ op' = "get"
    /\ mrecov' = recoverable
    /\ IF streaming_data.some
       THEN /\ get_return(Ok(streaming_data.v.adaptive_formats))
            /\ UNCHANGED mcalls
       ELSE /\ mpc' = "player"
            /\ mcalls' = <<MetadataCall("player", id)>>
            /\ UNCHANGED mres
    /\ UNCHANGED others_get

\* client.api.player(id) returned r: a recoverable response is used, after
\* anything else client.api.get_video_info(id) is called
get_player_returned(r) ==
    /\ op = "get"
    /\ mpc = "player"
    /\ IF IsPanic(r)
       THEN /\ get_return(r)
            /\ mcalls' = Returned(r)
       ELSE IF r.tag = "Ok" /\ is_stream_recoverable(r.v.playability_status.status)
       THEN /\ get_streams(r.v)
            /\ mcalls' = Returned(r)
       ELSE /\ mpc' = "get_video_info"
            /\ mcalls' = Append(Returned(r), MetadataCall("get_video_info", mcalls[1].id))
            /\ UNCHANGED mres
    /\ UNCHANGED <<op, mrecov, others_get>>

\* mutant of get_video_info_returned: after a response that is not
\* recoverable the player call is made once more
get_video_info_returned_again(r) ==
    /\ op = "get"
    /\ mpc = "get_video_info"
    /\ IF IsPanic(r) \/ r.tag = "Err"
       THEN /\ get_return(r)
            /\ mcalls' = Returned(r)
       ELSE IF is_stream_recoverable(r.v.playability_status.status)
       THEN /\ get_streams(r.v)
            /\ mcalls' = Returned(r)
       ELSE IF Len(mcalls) = 2
       THEN /\ mpc' = "player"
            /\ mcalls' = Append(Returned(r), MetadataCall("player", mcalls[1].id))
            /\ UNCHANGED mres
       ELSE /\ get_return(Unplayable(r.v.playability_status.status,
                                     r.v.playability_status.reason))
            /\ mcalls' = Returned(r)
    /\ UNCHANGED <<op, mrecov, others_get>>

\* client.api.get_video_info(id) returned r: an error leaves through `?`,
\* a recoverable response is used, any other gives Error::Unplayable
get_video_info_returned(r) ==
    /\ op = "get"
    /\ mpc = "get_video_info"
    /\ IF IsPanic(r) \/ r.tag = "Err"
       THEN get_return(r)
       ELSE IF is_stream_recoverable(r.v.playability_status.status)
       THEN get_streams(r.v)
       ELSE get_return(Unplayable(r.v.playability_status.status,
                                  r.v.playability_status.reason))
    /\ mcalls' = Returned(r)
    /\ UNCHANGED <<op, mrecov, others_get>>

Init ==
    /\ op = "none"
    /\ idin = None
    /\ idres = None
    /\ idback = None
    /\ mpc = "idle"
    /\ mcalls = <<>>
    /\ mres = None
    /\ mrecov = {}
    /\ signal = None
    /\ classified = None
    /\ cell = None
    /\ script = None
    /\ tpc = [t \in Tasks |-> "idle"]
    /\ tfmt = [t \in Tasks |-> None]
    /\ tsaw = [t \in Tasks |-> "unchecked"]
    /\ treq = [t \in Tasks |-> 0]
    /\ tplayer = [t \in Tasks |-> None]
    /\ tres = [t \in Tasks |-> None]
    /\ overlap = FALSE
    /\ debug_assertions \in BOOLEAN
    /\ ppc = "idle"
    /\ videos = <<>>
    /\ yielded = <<>>
    /\ nserved = 0
    /\ npages = 0
    /\ creqs = <<>>
    /\ pbase = 0
    /\ wellformed = TRUE
    /\ ppanic = None
    /\ cbody = None
    /\ cplan = None
    /\ cruns = <<>>
    /\ spc = "idle"
    /\ gpc = "none"
    /\ retry = 0
    /\ inflight = None
    /\ attempts = <<>>
    /\ calls = <<>>
    /\ returned = <<>>
    /\ sresult = None

Next ==
    \/ \E id \in VideoIds : streams_start(id)
    \/ get_timeout
    \/ \E c \in {"connect", "status"} : get_error(c)
    \/ get_response
    \/ \E c \in {"body", "body_timeout"} : get_body_error(c)
    \/ get_body
    \/ \E body \in Bodies : cipher_extract(body)
    \/ \E sig \in Signatures : cipher_run(sig)
    \/ \E ps \in PlayabilityStatuses : classify_playability(ps)
    \/ \E alert \in Alerts : classify_alert(alert)
    \/ \E t \in Tasks, fmt \in Formats : url_call(t, fmt)
    \/ \E t \in Tasks : player_fetch_failed(t)
    \/ \E t \in Tasks : url_abandon(t)
    \/ streams_abandon
    \/ \E t \in Tasks, body \in PlayerAssets : player_fetched(t, body)
    \/ \E first \in {None} \cup {Some(shape) : shape \in ServablePages} : videos_start(first)
    \/ videos_end
    \/ videos_yield
    \/ videos_continuation
    \/ videos_continuation_failed
    \/ \E shape \in PageShapes : videos_continued(shape)
    \/ \E len \in IdLens, input \in IdInputs(CHANNEL_PREFIXES[1]) : id_parse(len, input)
    \/ id_reparse
    \/ \E input \in PlaylistInputs : playlist_parse(input)
    \/ \E id \in VideoIds, sd \in {None, Some(SuppliedData)}, rec \in SUBSET PlayabilityErrorCodes :
          get_start(id, sd, rec)
    \/ \E r \in MetadataResults : get_player_returned(r)
    \/ \E r \in MetadataResults : get_video_info_returned(r)

Spec == Init /\ [][Next]_vars

(***************************************************************************)
(* Properties of Api::streams and Api::get.                                *)
(***************************************************************************)
\* the attempts made under one context
CallAttempts(ctx) == SelectSeq(attempts, LAMBDA a : a.req.context = ctx)

\* C1: Api::streams falls back at most once: the first call uses ANDROID, a
\* second call exists only after an age-gated first result and uses the
\* embedded context, there is never a third; Api::streams returns the result
\* of its last call as it is, and after AgeRestricted under ANDROID and
\* success under the embedded context that is the embedded context's data.
C1_OneFallback ==
    /\ Len(calls) <= 2
    /\ Len(calls) >= 1 => calls[1] = CONTEXT_ANDROID
    /\ Len(calls) = 2 =>
          /\ calls[2] = CONTEXT_EMBEDDED
          /\ Len(returned) >= 1
          /\ needs_embedded(returned[1])
    /\ spc = "done" =>
          /\ Len(returned) = Len(calls)
          /\ sresult = Some(returned[Len(calls)])
          /\ returned[1] = ErrYoutube(Yt("AgeRestricted")) =>
                /\ Len(calls) = 2
                /\ returned[2].tag = "Ok" =>
                      sresult.v.v.served_to = CONTEXT_EMBEDDED

C1_Witness ==
    /\ spc = "done"
    /\ returned[1] = ErrYoutube(Yt("AgeRestricted"))
    /\ sresult.v.tag = "Ok"
    /\ sresult.v.v.served_to = CONTEXT_EMBEDDED

ABCDEFG == <<"A", "B", "C", "D", "E", "F", "G">>
PlanSwapSpliceReverse == <<SwapCipher(2), SpliceCipher(3), ReverseCipher>>
PlanSpliceSwapReverse == <<SpliceCipher(3), SwapCipher(2), ReverseCipher>>

\* C8: the ciphers apply in plan order and the order matters: every run of
\* [Swap(2), Splice(3), Reverse] on "ABCDEFG" gives "GFED", every run of
\* [Splice(3), Swap(2), Reverse] on it gives "GDEF", and either differs from
\* what the other plan gives for the same signature.
C8_OrderSensitive ==
    \A i \in DOMAIN cruns :
        cruns[i].signature = ABCDEFG =>
            /\ cplan.v = Ok(PlanSwapSpliceReverse) =>
                  /\ cruns[i].out = Ok(<<"G", "F", "E", "D">>)
                  /\ cruns[i].out # run(PlanSpliceSwapReverse, ABCDEFG)
            /\ cplan.v = Ok(PlanSpliceSwapReverse) =>
                  /\ cruns[i].out = Ok(<<"G", "D", "E", "F">>)
                  /\ cruns[i].out # run(PlanSwapSpliceReverse, ABCDEFG)

C8_Witness ==
    /\ cplan = Some(Ok(PlanSwapSpliceReverse))
    /\ Len(cruns) >= 1
    /\ cruns[1].signature = ABCDEFG
    /\ cruns[1].out = Ok(<<"G", "F", "E", "D">>)

Fetchers == {t \in Tasks : treq[t] > 0}
\* task t resolved the URL of a ciphered format
Resolved(t) == tres[t].some /\ tres[t].v.tag = "Ok" /\ ~tfmt[t].v.url.some

\* C3: sequential resolutions of ciphered URLs on one Client fetch the
\* player script exactly once: a call of Client::player that finds the cell
\* filled sends no request and returns the stored Player, a call that finds
\* it empty sends one; when no call started while another was waiting for
\* the script and none panicked or was abandoned, at most one request was
\* sent in all, and exactly one once a resolution returned.
C3_OneFetch ==
    /\ \A t \in Tasks :
          /\ tsaw[t] = "filled" => treq[t] = 0 /\ tplayer[t] = cell
          /\ tsaw[t] = "empty" => treq[t] = 1
          /\ tsaw[t] = "unchecked" => treq[t] = 0
    /\ (~overlap /\ \A t \in Tasks : tpc[t] \notin {"panicked", "dropped"}) =>
          /\ Cardinality(Fetchers) <= 1
          /\ (\E t \in Tasks : Resolved(t)) => Cardinality(Fetchers) = 1

\* two sequential resolutions of ciphered URLs returned, with one fetch
C3_Witness ==
    /\ ~overlap
    /\ Resolved(1) /\ Resolved(2)
    /\ treq[1] = 1 /\ treq[2] = 0
    /\ tsaw[2] = "filled"
    /\ tplayer[1] = cell /\ tplayer[2] = cell

\* C4: when two tasks call Client::player on a Client whose cell is empty,
\* and both get the script, both calls return the Player the cell holds
\* afterwards; neither ends in a failure or abort.
C4_ConcurrentInit ==
    \A t, u \in Tasks :
        (/\ t # u
         /\ tsaw[t] = "empty" /\ tsaw[u] = "empty"
         /\ tpc[t] \in {"done", "panicked"} /\ tpc[u] \in {"done", "panicked"}
         /\ tres[t] # Some(PlayerPanic("PlayerNotFound"))
         /\ tres[u] # Some(PlayerPanic("PlayerNotFound"))
         /\ cell.some)
        => /\ tplayer[t] = cell /\ tplayer[u] = cell
           /\ tres[t] # Some(SetPanic) /\ tres[u] # Some(SetPanic)

(***************************************************************************)
(* Properties of Playlist::videos.                                         *)
(***************************************************************************)
\* the video id of a yielded item
YieldedId(item) == IF item.tag = "Ok" THEN item.v.video_id ELSE item.err.id

C10_MidPageViolation == ppc = "await" => videos = <<>>

(***************************************************************************)
(* Properties of the classifier.                                           *)
(***************************************************************************)
\* the signal is a playability status with an error screen renderer
HasRenderer ==
    /\ signal.some
    /\ signal.v.from = "player"
    /\ signal.v.playability_status.error_screen.some
    /\ signal.v.playability_status.error_screen.v.player_error_message_renderer.some
Renderer == signal.v.playability_status.error_screen.v.player_error_message_renderer.v
\* the signal is an alert of type ERROR
IsErrorAlert == signal.some /\ signal.v.from = "browse" /\ signal.v.alert.type = "ERROR"
ClassifiedAs(t) == classified = Some(ErrYoutube(Yt(t)))

\* C6: a signal whose text matches none of the known strings is classified
\* as a distinct unclassified error carrying the raw text, without an abort.
C6_Unclassified ==
    /\ (HasRenderer /\ Renderer.reason = TxtUnknown) =>
          /\ classified.v.tag = "Err"
          /\ classified.v.kind = "Youtube"
          /\ classified.v.yt = [tag |-> "Unclassified", raw_text |-> TxtUnknown]
    /\ (IsErrorAlert /\ alert_text(signal.v.alert) = TxtUnknownAlert) =>
          /\ classified.v.tag = "Err"
          /\ classified.v.kind = "Youtube"
          /\ classified.v.yt = [tag |-> "Unclassified", raw_text |-> TxtUnknownAlert]

\* C7: each known text is classified as its one category: the texts of the
\* error screen, the subreasons of "Video unavailable", the payment reason
\* without an error screen, and the texts of an alert of type ERROR.
C7_KnownTexts ==
    /\ HasRenderer =>
          /\ Renderer.reason = TxtPrivate => ClassifiedAs("Private")
          /\ Renderer.reason = TxtAge => ClassifiedAs("AgeRestricted")
          /\ Renderer.reason = TxtPayment => ClassifiedAs("PurchaseRequired")
          /\ Renderer.reason = TxtTos => ClassifiedAs("TermsOfServiceViolation")
          /\ Renderer.reason = TxtNudity => ClassifiedAs("NudityOrSexualContentViolation")
          /\ Renderer.reason = TxtUnavailable =>
                /\ subreason(Renderer) = Some(TxtTerminated) => ClassifiedAs("AccountTerminated")
                /\ subreason(Renderer) = Some(TxtRemoved) => ClassifiedAs("RemovedByUploader")
                /\ subreason(Renderer) = Some(TxtNotFound) => ClassifiedAs("NotFound")
    /\ (signal.some /\ signal.v.from = "player" /\ ~HasRenderer
            /\ signal.v.playability_status.reason = Some(TxtPayment)) =>
          ClassifiedAs("PurchaseRequired")
    /\ IsErrorAlert =>
          /\ alert_text(signal.v.alert) \in {TxtNoPlaylist, TxtNoChannel} => ClassifiedAs("NotFound")
          /\ alert_text(signal.v.alert) = TxtUnviewable => ClassifiedAs("Unviewable")

\* the nudity text on an error screen was classified
C7_Witness ==
    /\ HasRenderer
    /\ Renderer.reason = TxtNudity
    /\ ClassifiedAs("NudityOrSexualContentViolation")

(***************************************************************************)
(* Further properties of Api::get.                                         *)
(***************************************************************************)
\* C11: a body that does not match the endpoint's schema ends the call with
\* a parse error returned to the caller: Api::streams is done, its result is
\* an Err that is neither a Request nor a Youtube error, and the mismatching
\* attempt is the last one sent.
C11_SchemaError ==
    \A i \in DOMAIN attempts :
        attempts[i].outcome = "mismatch" =>
            /\ i = Len(attempts)
            /\ spc = "done"
            /\ sresult.some
            /\ sresult.v.tag = "Err"
            /\ sresult.v.kind \notin {"Request", "Youtube"}

(***************************************************************************)
(* Further properties of Stream::url and Client::player.                   *)
(***************************************************************************)
\* Stream::url of task t is over, and it had sent a request for the script
FetchOver(t) == tpc[t] \in {"done", "panicked"} /\ treq[t] = 1
\* the script that was served has no plan: from_body returns an Err
ScriptUnusable ==
    /\ script.some
    /\ ~IsPanic(from_body(script.v))
    /\ from_body(script.v).tag = "Err"

\* C12: the failures of the player asset reach the caller of Stream::url as
\* error values: when no script was ever received, a task whose fetch is
\* over holds a transport error; when the script received yields no cipher
\* plan, a task whose fetch is over holds an error value (of the transport
\* or of the cipher extraction).
C12_AssetErrorsSurface ==
    \A t \in Tasks :
        FetchOver(t) =>
            /\ ~script.some =>
                  /\ tres[t].v.tag = "Err"
                  /\ tres[t].v.kind = "Request"
            /\ ScriptUnusable => tres[t].v.tag = "Err"

\* the attempts that ended in a timeout
TimedOut == {i \in DOMAIN attempts : attempts[i].outcome = "timeout"}
\* Api::streams returned an error reported by YouTube
EndedInDomainError ==
    /\ spc = "done"
    /\ sresult.v.tag = "Err"
    /\ sresult.v.kind = "Youtube"

\* C13 as stated: a logical call that ends in a domain error has sent one
\* request per context used.
C13_OneRequestPerContext == EndedInDomainError => Len(attempts) = Len(calls)

\* C13 as amended: the attempt that receives a domain failure is never sent
\* again: no later attempt has its context; a logical call that ends in a
\* domain error has sent, per context used, one request and one more for
\* each attempt that timed out.
C13_DomainNotRetried ==
    /\ \A i, j \in DOMAIN attempts :
          (attempts[i].outcome = "domain" /\ i < j) =>
              attempts[j].req.context # attempts[i].req.context
    /\ EndedInDomainError => Len(attempts) = Len(calls) + Cardinality(TimedOut)

\* an age-gated answer under ANDROID, then under the embedded context a
\* timeout and a domain failure
C13_Witness ==
    /\ EndedInDomainError
    /\ Len(calls) = 2
    /\ Len(attempts) = 3
    /\ attempts[1].outcome = "domain"
    /\ attempts[2].outcome = "timeout"
    /\ attempts[3].outcome = "domain"

(***************************************************************************)
(* Further properties of CipherPlan::from_body.                            *)
(***************************************************************************)
\* the non-empty statements of the entry routine of the script, in order
Statements == SelectSeq(cbody.v.entry.v, LAMBDA st : st.kind # "empty")
\* the integer a call's argument denotes
ArgValue(arg) == CASE arg = "1" -> 1 [] arg = "2" -> 2 [] arg = "3" -> 3 [] OTHER -> -1
\* the operation of the sub-routine a statement calls: rv holds the reversal
\* idiom, sp the slice removal, sw the modulo-indexed swap
ExpectedCipher(st) ==
    CASE st.kind = "call" /\ st.func = "rv" -> [op |-> "Reverse"]
      [] st.kind = "call" /\ st.func = "sp" -> [op |-> "Splice", index |-> ArgValue(st.arg)]
      [] st.kind = "call" /\ st.func = "sw" -> [op |-> "Swap", index |-> ArgValue(st.arg)]
      [] OTHER -> [op |-> "none"]
Extracted == cplan.some /\ cplan.v.tag = "Ok"

\* C14: a plan that from_body returns has one operation per non-empty
\* statement of the entry routine, in statement order, and the i-th is the
\* operation of the sub-routine the i-th statement calls, with the call's
\* integer argument.
C14_PlanInOrder ==
    Extracted =>
        /\ Len(cplan.v.v) = Len(Statements)
        /\ \A i \in DOMAIN Statements : cplan.v.v[i] = ExpectedCipher(Statements[i])

\* a plan of a swap, a splice and a reversal was extracted
C14_Witness ==
    /\ Extracted
    /\ cbody.v.entry.v = <<Call("sw", "2"), Call("sp", "3"), Call("rv", "b")>>
    /\ Len(cplan.v.v) = 3

\* the typed error a statement stands for: a statement that is no call, a
\* call of zz (defined nowhere in the script), a call of xx (whose body
\* holds none of the three idioms)
StatementError(st) ==
    CASE st.kind = "other" -> [kind |-> "Statement", statement |-> "var c=a.length"]
      [] st.kind = "call" /\ st.func = "zz" -> [kind |-> "CipherFunctionNotFound", name |-> "zz"]
      [] st.kind = "call" /\ st.func = "xx" ->
            [kind |-> "UnknownCipher", function_name |-> "xx", body |-> "a.push(b)"]
      [] OTHER -> [kind |-> "none"]
Erroneous(st) == StatementError(st).kind # "none"
\* the statement calls one of the three operations, with an integer
\* argument where the operation takes one
WellFormedCall(st) ==
    /\ ExpectedCipher(st).op # "none"
    /\ ExpectedCipher(st).op \in {"Splice", "Swap"} => ExpectedCipher(st).index >= 0

C16_NotFoundExplicit ==
    (signal.some /\ signal.v.from = "player" /\ ClassifiedAs("NotFound")) =>
        /\ HasRenderer
        /\ Renderer.subreason.some
        /\ subreason(Renderer) = Some(TxtNotFound)

(***************************************************************************)
(* Abandoned calls.                                                        *)
(***************************************************************************)
\* C17: a call abandoned while it awaits leaves no trace in the state the
\* calls share: a filled cell was filled by a call that was not abandoned
\* and is the Player that call returned, so the cell is still empty when
\* every call so far was abandoned; an abandoned Stream::url has neither a
\* Player nor a result; an abandoned Api::streams has no request in flight,
\* no result, and the attempt it dropped is the last one sent.
C17_AbandonNoEffect ==
    /\ cell.some =>
          \E u \in Tasks : /\ tpc[u] # "dropped"
                           /\ treq[u] = 1
                           /\ tplayer[u] = cell
    /\ \A t \in Tasks :
          tpc[t] = "dropped" => /\ tsaw[t] = "empty"
                                /\ tplayer[t] = None
                                /\ tres[t] = None
    /\ spc = "dropped" =>
          /\ gpc = "none"
          /\ inflight = None
          /\ sresult = None
          /\ attempts[Len(attempts)].outcome = "dropped"
          /\ \A i \in 1..(Len(attempts) - 1) : attempts[i].outcome # "dropped"

\* the first call was abandoned, the cell stayed empty, and the second call
\* fetched the script and resolved its URL
C17_Witness ==
    /\ tpc[1] = "dropped"
    /\ tsaw[2] = "empty"
    /\ treq[2] = 1
    /\ Resolved(2)
    /\ tplayer[2] = cell

(***************************************************************************)
(* Further properties of Playlist::videos.                                 *)
(***************************************************************************)
\* the continuation requests that have no page yet
Outstanding == Len(creqs) - (IF npages = 0 THEN 0 ELSE npages - 1)
\* the video items of the page being read that the iterator still holds
Unread == {i \in DOMAIN videos : videos[i].kind = "PlaylistVideoRenderer"}
YieldedIds == {YieldedId(yielded[k]) : k \in DOMAIN yielded}

\* C18: pagination is sequential and driven by the tokens: while a
\* continuation request is pending, the video items of the page that precede
\* the continuation item have all been yielded; the k-th request goes to the
\* browse endpoint and carries, as it was served, a token of page k; at most
\* one request is pending, and none while the page is read or after the
\* stream ended.
C18_SequentialTokens ==
    /\ ppc = "await" =>
          \A id \in (pbase + 1)..(nserved - Cardinality(Unread)) : id \in YieldedIds
    /\ \A k \in DOMAIN creqs :
          /\ creqs[k].endpoint = "browse"
          /\ creqs[k].context = CONTEXT_WEB
          /\ creqs[k].continuation \in
                {<<k, pos>> : pos \in UNION {DOMAIN shape : shape \in PageShapes}}
    /\ Outstanding \in {0, 1}
    /\ ppc = "await" => Outstanding = 1
    /\ ppc \in {"idle", "loop", "done"} => Outstanding = 0

\* the request for the third page is pending: it carries the token of the
\* second page, and the items of both pages have been yielded
C18_Witness ==
    /\ ppc = "await"
    /\ npages = 2
    /\ Len(creqs) = 2
    /\ creqs[2].continuation = <<2, 2>>
    /\ Len(yielded) = nserved
    /\ nserved >= 3

\* a continuation request was answered with a failure
ContinuationFailed == Outstanding = 1 /\ ppc # "await"

CopyrightScreen ==
    /\ HasRenderer
    /\ Renderer.reason = TxtUnavailable
    /\ Renderer.subreason.some
    /\ Renderer.subreason.v.kind = "Runs"
    /\ Len(Renderer.subreason.v.runs) >= 2
    /\ Renderer.subreason.v.runs[1] = TxtCopyright

\* C20: an error screen whose subreason runs are the copyright text and a
\* claimant is classified as CopyrightClaim of exactly that claimant.
C20_Claimant ==
    CopyrightScreen =>
        /\ classified.v.tag = "Err"
        /\ classified.v.kind = "Youtube"
        /\ classified.v.yt.tag = "CopyrightClaim"
        /\ classified.v.yt.claiment = Renderer.subreason.v.runs[2]

\* the claim of the test copyright_claim was classified
C20_Witness ==
    /\ CopyrightScreen
    /\ Renderer.subreason.v.runs[2] = "Richard DiBacco"
    /\ classified = Some(ErrYoutube(CopyrightClaim("Richard DiBacco")))

(***************************************************************************)
(* Properties of Id parsing.                                               *)
(***************************************************************************)
\* every character of the text is one of 0-9, a-z, A-Z, '_', '-'
AllValid(text) == \A i \in 1..Len(text) : validate_char(SubSeq(text, i, i))

\* C21: from_str of a define_id! type of length N succeeds exactly when
\* the text that remains after one known prefix has N characters, all valid;
\* the Id then prints as that text and parsing the printed form gives an
\* equal Id; otherwise the error is InvalidId of that text when a character
\* is invalid, and InvalidLength of its length if not.
C21_IdParse ==
    (idin.some /\ idin.v.type = "define_id") =>
        LET rest == idin.v.rest IN
        /\ idres.v.tag = "Ok" <=> (Len(rest) = idin.v.len /\ AllValid(rest))
        /\ idres.v.tag = "Ok" =>
              /\ id_to_string(idres.v.v) = rest
              /\ idback.some => idback = idres
        /\ ~AllValid(rest) => idres.v = InvalidId(rest)
        /\ (AllValid(rest) /\ Len(rest) # idin.v.len) => idres.v = InvalidLength(Len(rest))

\* an Id given as a URL was parsed, printed and parsed again
C21_Witness ==
    /\ idin.some
    /\ idin.v.type = "define_id"
    /\ idin.v.lead = CHANNEL_PREFIXES[1]
    /\ idin.v.rest = "Z-"
    /\ idres.v.tag = "Ok"
    /\ idback = idres

\* C22: every playlist::Id that from_str returns consists only of the
\* characters 0-9, a-z, A-Z, '_' and '-', also when the input was given as
\* a full playlist URL.
C22_PlaylistIdChars ==
    (idin.some /\ idin.v.type = "playlist" /\ idres.v.tag = "Ok") =>
        AllValid(idres.v.v.text)

\* C23: Api::streams makes the embedded-context call if and only if the
\* primary context's result is the classified error AgeRestricted; after a
\* success, a transport error or any other classified error, CopyrightClaim
\* with any claimant among them, there is no second call.
C23_FallbackIffAgeRestricted ==
    Len(returned) >= 1 =>
        (Len(calls) = 2 <=> returned[1] = ErrYoutube(Yt("AgeRestricted")))

\* the attempts of a call that ended in a timeout
TimedOutAttempts(as) == {i \in DOMAIN as : as[i].outcome = "timeout"}

\* C24: when Api::get gives up because of timeouts, with the log line
\* "Timed out RETRYS times. Stopping...", exactly RETRYS attempts of that
\* call have timed out.
C24_TimedOutRetrysTimes ==
    \A k \in DOMAIN calls :
        (Len(returned) >= k /\ returned[k] = ErrRequest("timeout")) =>
            Cardinality(TimedOutAttempts(CallAttempts(calls[k]))) = RETRYS

\* a signature of one-byte characters
IsAscii(sig) == \A i \in DOMAIN sig : sig[i] # EAcute

\* the plan that was extracted consists of one cipher of this kind
PlanIsOne(kind) ==
    /\ cplan.some
    /\ cplan.v.tag = "Ok"
    /\ Len(cplan.v.v) = 1
    /\ cplan.v.v[1].op = kind

\* sig with positions 0 and n mod L exchanged
SwappedModulo(sig, n) ==
    LET p == (n % Len(sig)) + 1 IN
    [i \in 1..Len(sig) |->
        IF i = 1 THEN sig[p] ELSE IF i = p THEN sig[1] ELSE sig[i]]

\* C25: for every non-empty signature of length L and every index n,
\* SwapCipher{index: n} exchanges the byte at position 0 with the byte at
\* position n mod L and leaves all other bytes in place.
C25_SwapModulo ==
    PlanIsOne("Swap") =>
        \A i \in DOMAIN cruns :
            (cruns[i].signature # <<>> /\ IsAscii(cruns[i].signature)) =>
                cruns[i].out = Ok(SwappedModulo(cruns[i].signature, cplan.v.v[1].index))

\* the last max(L - count, 0) elements of sig
WithoutFirst(sig, count) ==
    SubSeq(sig, (IF count > Len(sig) THEN Len(sig) ELSE count) + 1, Len(sig))

\* C26: SpliceCipher{index: count} removes the first count bytes and keeps
\* the rest in order, giving the last max(L - count, 0) bytes also when
\* count is greater than L, and CipherPlan::run returns a result for every
\* plan and every signature (stated here for the plans without a Swap and
\* the signatures of one-byte characters, where only Splice can stop a run).
C26_SpliceTotal ==
    /\ (cplan.some /\ cplan.v.tag = "Ok"
            /\ \A k \in DOMAIN cplan.v.v : cplan.v.v[k].op # "Swap") =>
          \A i \in DOMAIN cruns :
              IsAscii(cruns[i].signature) => ~IsPanic(cruns[i].out)
    /\ PlanIsOne("Splice") =>
          \A i \in DOMAIN cruns :
              IsAscii(cruns[i].signature) =>
                  cruns[i].out = Ok(WithoutFirst(cruns[i].signature, cplan.v.v[1].index))

\* the ways an attempt fails other than by a timeout of send(): a transport
\* error of send(), a non-success status, an error while reading the body
NonTimeoutFailures == {"connect", "status", "body"}

\* C27: only timeouts are retried in Api::get: an attempt is followed by
\* another of the same call only if it timed out, and an attempt that fails
\* with a non-timeout transport error or a non-success status is the last
\* one, the call returning Err(Error::Request) of that failure at once,
\* whatever the retry count.
C27_OnlyTimeoutsRetried ==
    /\ \A i \in 1..(Len(attempts) - 1) :
          attempts[i + 1].req.context = attempts[i].req.context =>
              attempts[i].outcome = "timeout"
    /\ \A i \in DOMAIN attempts :
          attempts[i].outcome \in NonTimeoutFailures =>
              /\ i = Len(attempts)
              /\ gpc = "none"
              /\ Len(returned) = Len(calls)
              /\ returned[Len(calls)] = ErrRequest(attempts[i].outcome)
              /\ sresult = Some(ErrRequest(attempts[i].outcome))

\* a call whose attempt failed with a non-success status after two timeouts
C27_Witness ==
    /\ spc = "done"
    /\ retry = 2
    /\ Len(attempts) = 3
    /\ attempts[1].outcome = "timeout"
    /\ attempts[2].outcome = "timeout"
    /\ attempts[3].outcome = "status"
    /\ sresult = Some(ErrRequest("status"))

\* C28: one initialization of the player cache by Client::player sends
\* exactly one request for the script, whatever the request's outcome: a
\* call that found the cell empty has sent one request, also when the
\* request failed (a timeout is one way to) and the call ended, and a call
\* that found it filled has sent none.
C28_OneAssetRequest ==
    \A t \in Tasks :
        /\ tsaw[t] = "empty" => treq[t] = 1
        /\ tsaw[t] # "empty" => treq[t] = 0
        /\ tpc[t] = "fetch" => tsaw[t] = "empty"
        /\ (tres[t].some /\ tres[t].v = PlayerPanic("PlayerNotFound")) =>
              /\ tpc[t] = "panicked"
              /\ treq[t] = 1

\* an initialization whose request failed has ended
C28_Witness ==
    \E t \in Tasks :
        /\ tsaw[t] = "empty"
        /\ tres[t] = Some(PlayerPanic("PlayerNotFound"))
        /\ treq[t] = 1

\* task t called Stream::url on a format that carries a url
Direct(t) == tfmt[t].some /\ tfmt[t].v.url.some

\* C29: Stream::url on a format that carries a direct url returns that url
\* unchanged without reading or filling the player cache, sending a request
\* or running a cipher; only a format without url and with a
\* signatureCipher causes the fetch, and the url it then returns is the
\* cipher's url with "&<sp>=<deciphered s>" after its query, the rest as
\* it was.
C29_DirectUrlUntouched ==
    /\ \A t \in Tasks :
          Direct(t) =>
              /\ tres[t] = Some(Ok(tfmt[t].v.url.v))
              /\ tsaw[t] = "unchecked"
              /\ treq[t] = 0
              /\ tplayer[t] = None
    /\ (\A t \in Tasks : tfmt[t].some => Direct(t)) => (cell = None /\ script = None)
    /\ \A t \in Tasks :
          treq[t] > 0 => (~tfmt[t].v.url.some /\ tfmt[t].v.signature_cipher.some)
    /\ \A t \in Tasks :
          (tfmt[t].some /\ ~Direct(t) /\ tres[t].some /\ tres[t].v.tag = "Ok") =>
              LET root == tfmt[t].v.signature_cipher.v
                  deciphered == run(cell.v.cipher_plan, root.s.v).v
              IN
              /\ tres[t].v.v.base = root.url.base
              /\ tres[t].v.v.query =
                    Some(root.url.query.v \o "&" \o root.sp \o "=" \o Str(deciphered))

\* one task got a direct url back while the cache stayed empty, the next
\* resolved a ciphered one: "AB" reversed and appended as sig
C29_Witness ==
    /\ Direct(1)
    /\ tres[1] = Some(Ok(DirectUrl))
    /\ tsaw[2] = "empty"
    /\ tres[2] = Some(Ok(Url("https://r2.googlevideo.com/videoplayback",
                             Some("expire=2&itag=251&sig=BA"))))

(***************************************************************************)
(* Properties of stream::get.                                              *)
(***************************************************************************)
\* the k-th call returned a response whose status is stream-recoverable
RecoverableReturn(k) ==
    /\ mcalls[k].ret.some
    /\ mcalls[k].ret.v.tag = "Ok"
    /\ mcalls[k].ret.v.v.playability_status.status \in mrecov

\* the k-th call returned, without a panic
CallReturned(k) == mcalls[k].ret.some /\ ~IsPanic(mcalls[k].ret.v)

\* C30: stream::get without supplied streaming data makes at most two
\* metadata calls: the player call first, and one get_video_info call
\* exactly when the player call returned an error or a response that is not
\* stream-recoverable; when the second response is not stream-recoverable
\* either, it returns Error::Unplayable with the second response's status
\* code and reason; there is never a third call.
C30_AtMostTwoCalls ==
    /\ Len(mcalls) <= 2
    /\ Len(mcalls) >= 1 => mcalls[1].api = "player"
    /\ Len(mcalls) >= 1 =>
          (Len(mcalls) = 2 <=> (CallReturned(1) /\ ~RecoverableReturn(1)))
    /\ Len(mcalls) = 2 =>
          /\ mcalls[2].api = "get_video_info"
          /\ mcalls[2].id = mcalls[1].id
          /\ (CallReturned(2) /\ mcalls[2].ret.v.tag = "Ok" /\ ~RecoverableReturn(2)) =>
                /\ mpc = "done"
                /\ mres = Some(Unplayable(mcalls[2].ret.v.v.playability_status.status,
                                          mcalls[2].ret.v.v.playability_status.reason))

\* both calls returned responses that are not recoverable, with different
\* codes, and the second one's is in the error
C30_Witness ==
    /\ Len(mcalls) = 2
    /\ mcalls[1].ret = Some(Ok([playability_status |->
                                    [status |-> "LOGIN_REQUIRED", reason |-> None],
                                streaming_data |-> None]))
    /\ mres = Some(Unplayable("UNPLAYABLE", Some("reason of UNPLAYABLE")))

====
